---- MODULE Spec2Model ----
(***************************************************************************)
(* Energy accumulator of aggregate_energy.py (and its twin                 *)
(* aggregate_energy_enhanced.py): period boundaries, apply_resets,         *)
(* the integration step of compute_and_send, and EnergyState.load / save.  *)
(*                                                                         *)
(* Abstractions:                                                           *)
(*  - instants are whole epoch seconds (Python floats with microseconds);  *)
(*  - an energy total is the integer numerator of a fraction of kWh whose  *)
(*    denominator is KwhDen = 2 * 3600000, so that the rectangular and the *)
(*    trapezoidal increments are both exact; float rounding is left out;   *)
(*  - Optional[x] is a sequence: <<>> for None, <<v>> for a value.         *)
(***************************************************************************)
EXTENDS Integers, Sequences, FiniteSets, TLC

VARIABLES
    clock,        \* the system clock, epoch seconds (time.time())
    utcoff,       \* the local UTC offset in seconds (what astimezone() attaches)
    state,        \* the in-memory EnergyState of main_loop
    fs,           \* the directory of STATE_FILE: file name -> file
    pc,           \* position of the process in main_loop / compute_and_send
    now,          \* compute_and_send's local `now` (a datetime), <<>> before the first call
    all_devices,  \* compute_and_send's local `all_devices`
    metrics,      \* what the last send_metrics call was given, <<>> before the first
    hist,         \* history: what the calls made so far did (not program state)
    writers       \* processes running save on one STATE_FILE side by side: name -> position

vars == <<clock, utcoff, state, fs, pc, now, all_devices, metrics, hist, writers>>

None == <<>>
Some(v) == <<v>>
Val(o) == o[1]

Periods == {"day", "week", "month", "year"}

(***************************************************************************)
(* Bounds of the model.                                                    *)
(***************************************************************************)
MaxCycles == 3

(***************************************************************************)
(* datetime: an aware datetime is its civil fields plus its fixed offset.  *)
(***************************************************************************)
SecondsPerDay == 86400
SecondsPerHour == 3600
SecondsPerMinute == 60

\* datetime.toordinal arithmetic (proleptic Gregorian), relative to 1970-01-01.
\* The intermediate values are passed on as parameters, one step per definition.
DaysOfShifted(yy, mp, d) ==
    (yy \div 400) * 146097
      + (yy % 400) * 365 + (yy % 400) \div 4 - (yy % 400) \div 100
      + (153 * mp + 2) \div 5 + d - 1
      - 719468

\* days since 1970-01-01 of the civil date y-m-d (the year starts in March)
DaysFromCivil(y, m, d) ==
    DaysOfShifted(IF m <= 2 THEN y - 1 ELSE y, IF m > 2 THEN m - 3 ELSE m + 9, d)

CivilOfMonth(y, m, d) == <<y + (IF m <= 2 THEN 1 ELSE 0), m, d>>

CivilOfMp(y, doy, mp) ==
    CivilOfMonth(y, IF mp < 10 THEN mp + 3 ELSE mp - 9, doy - (153 * mp + 2) \div 5 + 1)

CivilOfDoy(y, doy) == CivilOfMp(y, doy, (5 * doy + 2) \div 153)

CivilOfYoe(era, doe, yoe) ==
    CivilOfDoy(yoe + era * 400, doe - (365 * yoe + yoe \div 4 - yoe \div 100))

CivilOfDoe(era, doe) ==
    CivilOfYoe(era, doe,
               (doe - doe \div 1460 + doe \div 36524 - doe \div 146096) \div 365)

\* the civil date <<y, m, d>> of a day number
CivilFromDays(z) == CivilOfDoe((z + 719468) \div 146097, (z + 719468) % 146097)

MakeDatetime(c, sod, off) ==
    [year |-> c[1], month |-> c[2], day |-> c[3],
     hour |-> sod \div SecondsPerHour,
     minute |-> (sod % SecondsPerHour) \div SecondsPerMinute,
     second |-> sod % SecondsPerMinute,
     utcoffset |-> off]

\* datetime.fromtimestamp(ts, tz) for a fixed-offset tz
FromTimestamp(ts, off) ==
    MakeDatetime(CivilFromDays((ts + off) \div SecondsPerDay), (ts + off) % SecondsPerDay, off)

\* datetime.timestamp() of an aware datetime
Timestamp(dt) ==
    DaysFromCivil(dt.year, dt.month, dt.day) * SecondsPerDay
      + dt.hour * SecondsPerHour + dt.minute * SecondsPerMinute + dt.second
      - dt.utcoffset

\* datetime.weekday(): Monday = 0
Weekday(dt) == (DaysFromCivil(dt.year, dt.month, dt.day) + 3) % 7

WithDate(dt, c) == [dt EXCEPT !.year = c[1], !.month = c[2], !.day = c[3]]

\* dt - timedelta(days=n): civil arithmetic, the tzinfo is kept
MinusDays(dt, n) ==
    WithDate(dt, CivilFromDays(DaysFromCivil(dt.year, dt.month, dt.day) - n))

\* local_now(): datetime.now().astimezone()
local_now == FromTimestamp(clock, utcoff)

(***************************************************************************)
(* Period boundaries: the definitions in force (the last of the repeated   *)
(* definitions in the file).                                               *)
(***************************************************************************)
\* a faulty variant: midnight of the day the clock is in, not of the argument
current_day_boundary_today(dt) ==
    [local_now EXCEPT !.hour = 0, !.minute = 0, !.second = 0]

current_day_boundary(dt) ==
    [dt EXCEPT !.hour = 0, !.minute = 0, !.second = 0]

\* "if boundary > now: boundary -= timedelta(days=7)"
WeekBoundaryBack(dt, boundary) ==
    IF Timestamp(boundary) > Timestamp(dt) THEN MinusDays(boundary, 7) ELSE boundary

current_week_boundary(dt) ==
    WeekBoundaryBack(dt, [MinusDays(dt, (Weekday(dt) - 0) % 7)
                            EXCEPT !.hour = 1, !.minute = 0, !.second = 0])

current_month_boundary(dt) ==
    [dt EXCEPT !.day = 1, !.hour = 1, !.minute = 0, !.second = 0]

current_year_boundary(dt) ==
    [dt EXCEPT !.month = 1, !.day = 1, !.hour = 1, !.minute = 0, !.second = 0]

\* the boundary function apply_resets uses for period k
current_boundary(k, dt) ==
    CASE k = "day"   -> current_day_boundary(dt)
      [] k = "week"  -> current_week_boundary(dt)
      [] k = "month" -> current_month_boundary(dt)
      [] k = "year"  -> current_year_boundary(dt)

(***************************************************************************)
(* The dataclasses.                                                        *)
(***************************************************************************)
DeviceEnergyState ==
    [last_power_w |-> None, day_kwh |-> 0, week_kwh |-> 0, month_kwh |-> 0, year_kwh |-> 0]

EnergyState ==
    [last_ts |-> None,
     day_kwh |-> 0, week_kwh |-> 0, month_kwh |-> 0, year_kwh |-> 0,
     last_day_reset |-> None, last_week_reset |-> None,
     last_month_reset |-> None, last_year_reset |-> None,
     devices |-> [d \in {} |-> DeviceEnergyState]]

\* the total of period k of an EnergyState or a DeviceEnergyState
Kwh(r, k) ==
    CASE k = "day"   -> r.day_kwh
      [] k = "week"  -> r.week_kwh
      [] k = "month" -> r.month_kwh
      [] k = "year"  -> r.year_kwh

\* the last-reset marker of period k
LastReset(st, k) ==
    CASE k = "day"   -> st.last_day_reset
      [] k = "week"  -> st.last_week_reset
      [] k = "month" -> st.last_month_reset
      [] k = "year"  -> st.last_year_reset

(***************************************************************************)
(* apply_resets                                                            *)
(***************************************************************************)
\* a faulty variant: a missing day marker is set to the boundary of the day before
InitResetsDayBefore(st, dt) ==
    [st EXCEPT
       !.last_day_reset   = IF @ = None
                            THEN Some(Timestamp(current_day_boundary(dt)) - SecondsPerDay) ELSE @,
       !.last_week_reset  = IF @ = None THEN Some(Timestamp(current_week_boundary(dt))) ELSE @,
       !.last_month_reset = IF @ = None THEN Some(Timestamp(current_month_boundary(dt))) ELSE @,
       !.last_year_reset  = IF @ = None THEN Some(Timestamp(current_year_boundary(dt))) ELSE @]

\* "initialize last reset times if missing"
InitResets(st, dt) ==
    [st EXCEPT
       !.last_day_reset   = IF @ = None THEN Some(Timestamp(current_day_boundary(dt))) ELSE @,
       !.last_week_reset  = IF @ = None THEN Some(Timestamp(current_week_boundary(dt))) ELSE @,
       !.last_month_reset = IF @ = None THEN Some(Timestamp(current_month_boundary(dt))) ELSE @,
       !.last_year_reset  = IF @ = None THEN Some(Timestamp(current_year_boundary(dt))) ELSE @]

\* a faulty variant: the marker is compared with <= instead of <
DueAtOrBefore(last_reset, now_ts, boundary_ts) ==
    now_ts >= boundary_ts /\ Val(last_reset) <= boundary_ts

\* a faulty variant: any marker other than the boundary is taken as behind it
DueWhenDifferent(last_reset, now_ts, boundary_ts) ==
    now_ts >= boundary_ts /\ Val(last_reset) # boundary_ts

\* "now.timestamp() >= boundary.timestamp() and state.last_x_reset < boundary.timestamp()"
Due(last_reset, now_ts, boundary_ts) ==
    now_ts >= boundary_ts /\ Val(last_reset) < boundary_ts

\* the condition of the reset of period k, on a state whose markers are set
ResetDue(k, st, dt) ==
    Due(LastReset(st, k), Timestamp(dt), Timestamp(current_boundary(k, dt)))

\* a faulty variant: the marker moves one day on from the last reset, not to the current boundary
ZeroDayNextDay(st, boundary_ts) ==
    [st EXCEPT !.day_kwh = 0, !.last_day_reset = Some(Val(@) + SecondsPerDay),
               !.devices = [d \in DOMAIN @ |-> [@[d] EXCEPT !.day_kwh = 0]]]

ZeroDay(st, boundary_ts) ==
    [st EXCEPT !.day_kwh = 0, !.last_day_reset = Some(boundary_ts),
               !.devices = [d \in DOMAIN @ |-> [@[d] EXCEPT !.day_kwh = 0]]]

\* a faulty variant: the entities keep their week totals
ZeroWeekWholeHome(st, boundary_ts) ==
    [st EXCEPT !.week_kwh = 0, !.last_week_reset = Some(boundary_ts)]

ZeroWeek(st, boundary_ts) ==
    [st EXCEPT !.week_kwh = 0, !.last_week_reset = Some(boundary_ts),
               !.devices = [d \in DOMAIN @ |-> [@[d] EXCEPT !.week_kwh = 0]]]

ZeroMonth(st, boundary_ts) ==
    [st EXCEPT !.month_kwh = 0, !.last_month_reset = Some(boundary_ts),
               !.devices = [d \in DOMAIN @ |-> [@[d] EXCEPT !.month_kwh = 0]]]

ZeroYear(st, boundary_ts) ==
    [st EXCEPT !.year_kwh = 0, !.last_year_reset = Some(boundary_ts),
               !.devices = [d \in DOMAIN @ |-> [@[d] EXCEPT !.year_kwh = 0]]]

ResetDay(st, dt) ==
    IF ResetDue("day", st, dt)
    THEN ZeroDay(st, Timestamp(current_day_boundary(dt))) ELSE st

ResetWeek(st, dt) ==
    IF ResetDue("week", st, dt)
    THEN ZeroWeek(st, Timestamp(current_week_boundary(dt))) ELSE st

ResetMonth(st, dt) ==
    IF ResetDue("month", st, dt)
    THEN ZeroMonth(st, Timestamp(current_month_boundary(dt))) ELSE st

ResetYear(st, dt) ==
    IF ResetDue("year", st, dt)
    THEN ZeroYear(st, Timestamp(current_year_boundary(dt))) ELSE st

apply_resets(st, dt) ==
    ResetYear(ResetMonth(ResetWeek(ResetDay(InitResets(st, dt), dt), dt), dt), dt)

\* the periods whose reset branch apply_resets(st, dt) takes
Zeroed(st, dt) == {k \in Periods : ResetDue(k, InitResets(st, dt), dt)}

(***************************************************************************)
(* The integration step of compute_and_send.                               *)
(***************************************************************************)
RECURSIVE SumValues(_)
\* sum(all_devices.values())
SumValues(f) ==
    IF DOMAIN f = {} THEN 0
    ELSE LET d == CHOOSE x \in DOMAIN f : TRUE
         IN  f[d] + SumValues([x \in DOMAIN f \ {d} |-> f[x]])

\* a faulty variant: no clamp
MaxSecond(a, b) == b

Max(a, b) == IF a >= b THEN a ELSE b

\* config.SMART_PLUG_POLL_INTERVAL
SMART_PLUG_POLL_INTERVAL == 30

\* kWh numerators are over KwhDen, twice the source's 3600000.0
WsPerKwh == 3600000
KwhDen == 2 * WsPerKwh

\* kwh_inc = (total_power_w * dt) / 3600000.0
\* a faulty variant: one watt is integrated besides the samples
WholeIncStandby(total_power_w, dt) == 2 * (total_power_w + 1) * dt

WholeInc(total_power_w, dt) == 2 * total_power_w * dt

\* avg_power = (last + current) / 2.0; device_kwh_inc = (avg_power * dt) / 3600000.0
\* a faulty variant: the current power alone
DeviceIncCurrent(last_power_w, current_power_w, dt) == 2 * current_power_w * dt

DeviceInc(last_power_w, current_power_w, dt) == (last_power_w + current_power_w) * dt

\* a faulty variant: = instead of +=
AddAllAssign(r, inc) ==
    [r EXCEPT !.day_kwh = inc, !.week_kwh = inc, !.month_kwh = inc, !.year_kwh = inc]

AddAll(r, inc) ==
    [r EXCEPT !.day_kwh = @ + inc, !.week_kwh = @ + inc,
              !.month_kwh = @ + inc, !.year_kwh = @ + inc]

\* "if device_state.last_power_w is not None: ..."; then the last power is updated
DeviceUpdate(device_state, current_power_w, dt) ==
    [(IF device_state.last_power_w # None
      THEN AddAll(device_state,
                  DeviceInc(Val(device_state.last_power_w), current_power_w, dt))
      ELSE device_state)
     EXCEPT !.last_power_w = Some(current_power_w)]

\* the body of the per-device loop for one device
DeviceStep(devices, device_key, current_power_w, dt) ==
    DeviceUpdate(IF device_key \in DOMAIN devices
                 THEN devices[device_key] ELSE DeviceEnergyState,
                 current_power_w, dt)

\* a faulty variant: the entities that are not in the samples are dropped
IntegrateForSampled(st, devs, dt) ==
    [AddAll(st, WholeInc(SumValues(devs), dt)) EXCEPT
       !.devices = [d \in DOMAIN devs |-> DeviceStep(st.devices, d, devs[d], dt)]]

\* a faulty variant: an entity without a sample is integrated as if it drew 0 W
IntegrateForAbsentAsZero(st, devs, dt) ==
    [AddAll(st, WholeInc(SumValues(devs), dt)) EXCEPT
       !.devices = [d \in (DOMAIN st.devices) \cup (DOMAIN devs) |->
                      DeviceStep(st.devices, d, IF d \in DOMAIN devs THEN devs[d] ELSE 0, dt)]]

\* the branch "if state.last_ts is not None" for dt seconds
IntegrateFor(st, devs, dt) ==
    [AddAll(st, WholeInc(SumValues(devs), dt)) EXCEPT
       !.devices = [d \in (DOMAIN st.devices) \cup (DOMAIN devs) |->
                      IF d \in DOMAIN devs
                      THEN DeviceStep(st.devices, d, devs[d], dt)
                      ELSE st.devices[d]]]

\* a faulty variant: the first sample is integrated over one poll interval
IntegrateFirstSample(st, devs, ts_now) ==
    [IntegrateFor(st, devs,
                  IF st.last_ts # None THEN Max(0, ts_now - Val(st.last_ts))
                  ELSE SMART_PLUG_POLL_INTERVAL)
     EXCEPT !.last_ts = Some(ts_now)]

\* a faulty variant: dt is capped at two poll intervals
IntegrateCapped(st, devs, ts_now) ==
    [(IF st.last_ts # None
      THEN IntegrateFor(st, devs,
                        IF ts_now - Val(st.last_ts) > 2 * SMART_PLUG_POLL_INTERVAL
                        THEN 2 * SMART_PLUG_POLL_INTERVAL
                        ELSE Max(0, ts_now - Val(st.last_ts)))
      ELSE st)
     EXCEPT !.last_ts = Some(ts_now)]

\* lines 412-445: "Integrate energy from last timestamp", then state.last_ts = ts_now
Integrate(st, devs, ts_now) ==
    [(IF st.last_ts # None
      THEN IntegrateFor(st, devs, Max(0, ts_now - Val(st.last_ts)))
      ELSE st)
     EXCEPT !.last_ts = Some(ts_now)]

\* the metrics list handed to send_metrics
BuildMetrics(st, devs) ==
    [power_watts |-> SumValues(devs),
     aggregate   |-> [k \in Periods |-> Kwh(st, k)],
     devices     |-> [d \in (DOMAIN st.devices) \cap (DOMAIN devs) |->
                        [k \in Periods |-> Kwh(st.devices[d], k)]]]

(***************************************************************************)
(* The state file.  A file is [exists, text]; the text of a JSON document  *)
(* is the sequence of the tokens json.dump writes: "{", one token per key  *)
(* of the top-level object, "}".  A JSON number x is <<x>>, null is <<>>.  *)
(***************************************************************************)
STATE_FILE == <<"energy_state.json">>

\* a save that writes the document in place
TmpPathSame(path) == path

\* tmp = path + '.tmp'
TmpPath(path) == Append(path, ".tmp")

FileNames == {STATE_FILE, TmpPath(STATE_FILE)}

NoFile == [exists |-> FALSE, text |-> <<>>]

Token(key, value) == [key |-> key, value |-> value]

\* a faulty variant: the last power reading is written as null
DeviceToJsonTotals(v) ==
    [last_power_w |-> None,
     day_kwh |-> Some(v.day_kwh), week_kwh |-> Some(v.week_kwh),
     month_kwh |-> Some(v.month_kwh), year_kwh |-> Some(v.year_kwh)]

\* asdict(v) of a DeviceEnergyState, as JSON values
DeviceToJson(v) ==
    [last_power_w |-> v.last_power_w,
     day_kwh |-> Some(v.day_kwh), week_kwh |-> Some(v.week_kwh),
     month_kwh |-> Some(v.month_kwh), year_kwh |-> Some(v.year_kwh)]

\* the text json.dump(data, f, indent=2) writes for data = asdict(self)
Dump(st) ==
    << Token("{", None),
       Token("last_ts", st.last_ts),
       Token("day_kwh", Some(st.day_kwh)),
       Token("week_kwh", Some(st.week_kwh)),
       Token("month_kwh", Some(st.month_kwh)),
       Token("year_kwh", Some(st.year_kwh)),
       Token("last_day_reset", st.last_day_reset),
       Token("last_week_reset", st.last_week_reset),
       Token("last_month_reset", st.last_month_reset),
       Token("last_year_reset", st.last_year_reset),
       Token("devices", [k \in DOMAIN st.devices |-> DeviceToJson(st.devices[k])]),
       Token("}", None) >>

\* open(name, 'w'): create or truncate
OpenW(files, name) == [files EXCEPT ![name] = [exists |-> TRUE, text |-> <<>>]]

\* f.write of the next token of text
WriteToken(files, name, tok) == [files EXCEPT ![name].text = Append(@, tok)]

\* a rename that removes the source and installs nothing
ReplaceDropsTmp(files, src, dst) == [files EXCEPT ![src] = NoFile]

\* os.replace(src, dst): atomic rename over dst
Replace(files, src, dst) ==
    IF src = dst THEN files
    ELSE [files EXCEPT ![dst] = files[src], ![src] = NoFile]

\* EnergyState.save(path), run to completion
WriteAll(files, name, text) == [files EXCEPT ![name].text = @ \o text]

\* EnergyState.save(path), run to completion
save(files, st, path) ==
    Replace(WriteAll(OpenW(files, TmpPath(path)), TmpPath(path), Dump(st)),
            TmpPath(path), path)

\* json.load succeeds: the text is one complete object
JsonOk(text) ==
    /\ Len(text) >= 2
    /\ text[1].key = "{"
    /\ text[Len(text)].key = "}"
    /\ \A i \in 2..(Len(text) - 1) : text[i].key \notin {"{", "}"}

\* the parsed top-level object: the keys present
JsonKeys(text) == {text[i].key : i \in 2..(Len(text) - 1)}

\* data[key]
JsonGet(text, key) ==
    text[CHOOSE i \in 2..(Len(text) - 1) : text[i].key = key].value

DeviceFields == {"last_power_w", "day_kwh", "week_kwh", "month_kwh", "year_kwh"}

StateFields ==
    {"last_ts", "day_kwh", "week_kwh", "month_kwh", "year_kwh",
     "last_day_reset", "last_week_reset", "last_month_reset", "last_year_reset",
     "devices"}

\* DeviceEnergyState(**dev_data): a missing key keeps the field's default
DeviceFromJson(j) ==
    [last_power_w |-> IF "last_power_w" \in DOMAIN j THEN j.last_power_w ELSE None,
     day_kwh   |-> IF "day_kwh" \in DOMAIN j THEN Val(j.day_kwh) ELSE 0,
     week_kwh  |-> IF "week_kwh" \in DOMAIN j THEN Val(j.week_kwh) ELSE 0,
     month_kwh |-> IF "month_kwh" \in DOMAIN j THEN Val(j.month_kwh) ELSE 0,
     year_kwh  |-> IF "year_kwh" \in DOMAIN j THEN Val(j.year_kwh) ELSE 0]

\* the try block of EnergyState.load raises nothing on this text
\* a faulty variant: only the top-level keys are checked, an entity entry
\* that cannot be converted is taken as it is
LoadOkTopLevel(text) ==
    /\ JsonOk(text)
    /\ JsonKeys(text) \subseteq StateFields

LoadOk(text) ==
    /\ JsonOk(text)
    /\ JsonKeys(text) \subseteq StateFields
    /\ "devices" \in JsonKeys(text) =>
         \A k \in DOMAIN JsonGet(text, "devices") :
            DOMAIN JsonGet(text, "devices")[k] \subseteq DeviceFields

\* EnergyState(**data), devices converted back to DeviceEnergyState
\* data.get(key) for an Optional field, a float field, the devices
JsonOpt(text, key) == IF key \in JsonKeys(text) THEN JsonGet(text, key) ELSE None
JsonNum(text, key) == IF key \in JsonKeys(text) THEN Val(JsonGet(text, key)) ELSE 0
JsonDevices(text) ==
    IF "devices" \in JsonKeys(text) THEN JsonGet(text, "devices")
    ELSE [k \in {} |-> DeviceEnergyState]

StateFromJson(text) ==
    [last_ts |-> JsonOpt(text, "last_ts"),
     day_kwh |-> JsonNum(text, "day_kwh"), week_kwh |-> JsonNum(text, "week_kwh"),
     month_kwh |-> JsonNum(text, "month_kwh"), year_kwh |-> JsonNum(text, "year_kwh"),
     last_day_reset |-> JsonOpt(text, "last_day_reset"),
     last_week_reset |-> JsonOpt(text, "last_week_reset"),
     last_month_reset |-> JsonOpt(text, "last_month_reset"),
     last_year_reset |-> JsonOpt(text, "last_year_reset"),
     devices |-> [k \in DOMAIN JsonDevices(text) |-> DeviceFromJson(JsonDevices(text)[k])]]

\* EnergyState.load(path): any exception gives a fresh EnergyState()
load(files, path) ==
    IF files[path].exists /\ LoadOk(files[path].text)
    THEN StateFromJson(files[path].text)
    ELSE EnergyState

(***************************************************************************)
(* The environment: what the clock, the sample source and the scheduler    *)
(* can do.                                                                 *)
(***************************************************************************)
EntityKeys == {"kasa.a", "tuya.b"}

\* get_device_power_from_graphite(): the mappings the sample source returns
Samples ==
    { [d \in {} |-> 0],
      [d \in {"kasa.a"} |-> 100],
      [d \in {"kasa.a"} |-> 300],
      [d \in {"kasa.a", "tuya.b"} |-> IF d = "kasa.a" THEN 100 ELSE 300] }

\* seconds the gathering of the samples takes (between local_now() and time.time())
GatherSeconds == {0, 30}

\* seconds until the next cycle starts: asyncio.sleep(config.SMART_PLUG_POLL_INTERVAL)
SleepSeconds == {SMART_PLUG_POLL_INTERVAL}

\* seconds a stopped process stays down before it is started again
DownSeconds == {2 * SecondsPerDay}

\* the zone of the host outside daylight-saving time (UTC+1)
StandardOffset == SecondsPerHour

Local(y, mo, d, h, mi, sec) ==
    [year |-> y, month |-> mo, day |-> d, hour |-> h, minute |-> mi, second |-> sec,
     utcoffset |-> StandardOffset]

\* the local instants at which the process is first started: half a minute before
\* a day boundary (a Sunday), a week boundary, the new year's month-and-year
\* boundary, and a month boundary; and a noon far from every boundary
StartTimes ==
    { Local(2024, 12, 29, 23, 59, 30),
      Local(2024, 12, 30, 0, 59, 30),
      Local(2025, 1, 1, 0, 59, 30),
      Local(2025, 2, 1, 0, 59, 30),
      Local(2025, 1, 15, 12, 0, 0) }

\* the zone's daylight-saving rule for 2025 (one hour ahead of StandardOffset from
\* the last Sunday of March 01:00 UTC to the last Sunday of October 01:00 UTC):
\* the offset datetime.now().astimezone() attaches to the instant t
DstBegins == Timestamp(Local(2025, 3, 30, 2, 0, 0))
DstEnds == Timestamp(Local(2025, 10, 26, 2, 0, 0))
UtcOffset(t) ==
    IF DstBegins <= t /\ t < DstEnds THEN StandardOffset + SecondsPerHour
    ELSE StandardOffset

\* no processes running save side by side
NoWriters == [p \in {} |-> None]

HistInit ==
    [calls     |-> 0,                       \* compute_and_send calls started
     first_now |-> None,                    \* now.timestamp() of the first call
     prev_now  |-> None,                    \* now.timestamp() of the call before the last
     prev_ts   |-> None,                    \* state.last_ts when the last call started
     prev_devs |-> None,                    \* all_devices of the call before the last
     zeroed    |-> {},                      \* periods the last call reset
     resets    |-> [k \in Periods |-> 0],   \* resets of each period so far
     saves     |-> 0,                       \* os.replace calls completed
     saved     |-> EnergyState,             \* the state the last completed save was given
     ended     |-> EnergyState,             \* the state in memory when the last call started
     lost      |-> None,                    \* what the process was doing when it was killed
     returned  |-> [k \in Periods |-> <<>>]] \* what the boundary functions returned for `now`

Init ==
    /\ \E s \in StartTimes : clock = Timestamp(s) /\ utcoff = s.utcoffset
    /\ fs = [n \in FileNames |-> NoFile]
    /\ state = load(fs, STATE_FILE)
    /\ pc = "start"
    /\ now = None
    /\ all_devices = [d \in {} |-> 0]
    /\ metrics = None
    /\ hist = HistInit
    /\ writers = NoWriters

\* the history after a call at `dt` from state `st` that reset the periods `zeroed`
HistCall(dt, st, zeroed) ==
    [hist EXCEPT
       !.calls = @ + 1,
       !.first_now = IF @ = None THEN Some(Timestamp(dt)) ELSE @,
       !.prev_now = IF now = None THEN None ELSE Some(Timestamp(now)),
       !.prev_ts = st.last_ts,
       !.prev_devs = IF now = None THEN None ELSE Some(all_devices),
       !.zeroed = zeroed,
       !.ended = st,
       !.lost = None,
       !.resets = [k \in Periods |-> @[k] + IF k \in zeroed THEN 1 ELSE 0]]

(***************************************************************************)
(* One sampling cycle run to completion: compute_and_send, then the sleep  *)
(* of main_loop.                                                           *)
(***************************************************************************)
\* the history after a save of `st` has replaced the state file
HistSaved(h, st) == [h EXCEPT !.saves = @ + 1, !.saved = st]

\* the end of compute_and_send: metrics sent, state saved; then the sleep
CycleEnd(dt, devs, after, wake) ==
    /\ UNCHANGED writers
    /\ hist' = HistSaved(HistCall(dt, state, Zeroed(state, dt)), after)
    /\ now' = dt
    /\ all_devices' = devs
    /\ state' = after
    /\ metrics' = Some(BuildMetrics(after, devs))
    /\ fs' = save(fs, after, STATE_FILE)
    /\ clock' = wake
    /\ utcoff' = UtcOffset(wake)
    /\ pc' = "sleep"

\* compute_and_send with now = dt, all_devices = devs, time.time() = ts_now
CycleAt(dt, devs, ts_now, wake) ==
    /\ CycleEnd(dt, devs, Integrate(apply_resets(state, dt), devs, ts_now), wake)

Cycle(devs, gather, sleep) ==
    /\ pc \in {"start", "sleep"}
    /\ hist.calls < MaxCycles
    /\ CycleAt(local_now, devs, clock + gather, clock + gather + sleep)

\* the process is stopped during the sleep and started again later: main_loop loads
Restart(down) ==
    /\ UNCHANGED writers
    /\ pc = "sleep"
    /\ hist.calls < MaxCycles
    /\ state' = load(fs, STATE_FILE)
    /\ clock' = clock + down
    /\ utcoff' = UtcOffset(clock + down)
    /\ pc' = "start"
    /\ UNCHANGED <<fs, now, all_devices, metrics, hist>>

Next ==
    \/ \E devs \in Samples, g \in GatherSeconds, s \in SleepSeconds : Cycle(devs, g, s)
    \/ \E down \in DownSeconds : Restart(down)

Spec == Init /\ [][Next]_vars

(***************************************************************************)
(* The same loop started around the two daylight-saving transitions.       *)
(***************************************************************************)
\* the instants at which the process is first started: two poll intervals before
\* the clocks go forward, and before they go back
DstStartInstants ==
    { DstBegins - 2 * SMART_PLUG_POLL_INTERVAL, DstEnds - 2 * SMART_PLUG_POLL_INTERVAL }

InitDst ==
    /\ clock \in DstStartInstants
    /\ utcoff = UtcOffset(clock)
    /\ fs = [n \in FileNames |-> NoFile]
    /\ state = load(fs, STATE_FILE)
    /\ pc = "start"
    /\ now = None
    /\ all_devices = [d \in {} |-> 0]
    /\ metrics = None
    /\ hist = HistInit
    /\ writers = NoWriters

SpecDst == InitDst /\ [][Next]_vars

(***************************************************************************)
(* The same loop on a host whose clock can be set back while it sleeps.    *)
(***************************************************************************)
\* seconds the clock is set back by: less than a cycle, and an hour
BackSeconds == {SMART_PLUG_POLL_INTERVAL + SMART_PLUG_POLL_INTERVAL \div 2, SecondsPerHour}

\* the local instants at which the process is first started: a noon, and half
\* and a quarter of a minute before a day boundary
BackStartTimes ==
    { Local(2025, 1, 15, 12, 0, 0),
      Local(2024, 12, 29, 23, 59, 30),
      Local(2024, 12, 29, 23, 59, 45) }

InitBack ==
    /\ \E s \in BackStartTimes : clock = Timestamp(s) /\ utcoff = s.utcoffset
    /\ fs = [n \in FileNames |-> NoFile]
    /\ state = load(fs, STATE_FILE)
    /\ pc = "start"
    /\ now = None
    /\ all_devices = [d \in {} |-> 0]
    /\ metrics = None
    /\ hist = HistInit
    /\ writers = NoWriters

\* the wall clock read by local_now() and time.time() is set back during the sleep
ClockBack(back) ==
    /\ UNCHANGED writers
    /\ pc = "sleep"
    /\ hist.calls < MaxCycles
    /\ state.last_ts # None
    /\ clock >= Val(state.last_ts)
    /\ clock' = clock - back
    /\ utcoff' = UtcOffset(clock - back)
    /\ UNCHANGED <<state, fs, pc, now, all_devices, metrics, hist>>

NextBack ==
    \/ \E devs \in Samples, g \in GatherSeconds, s \in SleepSeconds : Cycle(devs, g, s)
    \/ \E back \in BackSeconds : ClockBack(back)

SpecBack == InitBack /\ [][NextBack]_vars

(***************************************************************************)
(* The same loop around the daylight-saving transitions on a host whose    *)
(* clock can be set back and whose process can be stopped for days.        *)
(***************************************************************************)
InitZone ==
    /\ clock \in DstStartInstants \cup {Timestamp(Local(2024, 12, 29, 23, 59, 30))}
    /\ utcoff = UtcOffset(clock)
    /\ fs = [n \in FileNames |-> NoFile]
    /\ state = load(fs, STATE_FILE)
    /\ pc = "start"
    /\ now = None
    /\ all_devices = [d \in {} |-> 0]
    /\ metrics = None
    /\ hist = HistInit
    /\ writers = NoWriters

NextZone ==
    \/ \E devs \in Samples, g \in GatherSeconds, s \in SleepSeconds : Cycle(devs, g, s)
    \/ \E back \in BackSeconds : ClockBack(back)
    \/ \E down \in DownSeconds : Restart(down)

SpecZone == InitZone /\ [][NextZone]_vars

(***************************************************************************)
(* The same loop with the process stopped for more than a month.           *)
(***************************************************************************)
\* the samples of a small home: the integration over a month stays within
\* the range of the integers of the model
GapSamples ==
    { [d \in {} |-> 0],
      [d \in {"kasa.a"} |-> 100],
      [d \in {"kasa.a", "tuya.b"} |-> IF d = "kasa.a" THEN 60 ELSE 40] }

\* seconds the process is down: from the last day of a year into the first
\* hour of the first of February
GapSeconds == {32 * SecondsPerDay}

GapStartTimes == { Local(2024, 12, 31, 0, 30, 0), Local(2025, 1, 15, 12, 0, 0) }

InitGap ==
    /\ \E s \in GapStartTimes : clock = Timestamp(s) /\ utcoff = s.utcoffset
    /\ fs = [n \in FileNames |-> NoFile]
    /\ state = load(fs, STATE_FILE)
    /\ pc = "start"
    /\ now = None
    /\ all_devices = [d \in {} |-> 0]
    /\ metrics = None
    /\ hist = HistInit
    /\ writers = NoWriters

NextGap ==
    \/ \E devs \in GapSamples, g \in GatherSeconds, s \in SleepSeconds : Cycle(devs, g, s)
    \/ \E down \in GapSeconds : Restart(down)

SpecGap == InitGap /\ [][NextGap]_vars

(***************************************************************************)
(* The same cycle statement by statement, with the process killed and      *)
(* started again at any statement: pc is the statement about to run.       *)
(***************************************************************************)
MaxCrashCycles == 2

\* the statements of a cycle after the last assignment to the state (line 445)
Integrated == {"send", "save_open", "save_write", "return", "sleep"}

\* the sample source and the first start of the process in this specification
CrashSamples ==
    { [d \in {"kasa.a"} |-> 100],
      [d \in {"kasa.a", "tuya.b"} |-> IF d = "kasa.a" THEN 100 ELSE 300] }

CrashStartTimes == { Local(2025, 1, 15, 12, 0, 0) }

InitCrash ==
    /\ \E s \in CrashStartTimes : clock = Timestamp(s) /\ utcoff = s.utcoffset
    /\ fs = [n \in FileNames |-> NoFile]
    /\ state = load(fs, STATE_FILE)
    /\ pc = "start"
    /\ now = None
    /\ all_devices = [d \in {} |-> 0]
    /\ metrics = None
    /\ hist = HistInit
    /\ writers = NoWriters

\* now = local_now(); apply_resets(state, now)
StepResets ==
    /\ UNCHANGED writers
    /\ pc \in {"start", "sleep"}
    /\ hist.calls < MaxCrashCycles
    /\ now' = local_now
    /\ state' = apply_resets(state, local_now)
    /\ hist' = HistCall(local_now, state, Zeroed(state, local_now))
    /\ pc' = "gather"
    /\ UNCHANGED <<clock, utcoff, fs, all_devices, metrics>>

\* all_devices = get_device_power_from_graphite()
StepGather(devs, gather) ==
    /\ UNCHANGED writers
    /\ pc = "gather"
    /\ all_devices' = devs
    /\ clock' = clock + gather
    /\ utcoff' = UtcOffset(clock + gather)
    /\ pc' = "integrate"
    /\ UNCHANGED <<state, fs, now, metrics, hist>>

\* ts_now = time.time(); the integration; state.last_ts = ts_now
StepIntegrate ==
    /\ UNCHANGED writers
    /\ pc = "integrate"
    /\ state' = Integrate(state, all_devices, clock)
    /\ pc' = "send"
    /\ UNCHANGED <<clock, utcoff, fs, now, all_devices, metrics, hist>>

\* the metrics are built and handed to send_metrics
StepSend ==
    /\ UNCHANGED writers
    /\ pc = "send"
    /\ metrics' = Some(BuildMetrics(state, all_devices))
    /\ pc' = "save_open"
    /\ UNCHANGED <<clock, utcoff, state, fs, now, all_devices, hist>>

\* state.save(STATE_FILE): open(tmp, 'w')
StepOpen ==
    /\ UNCHANGED writers
    /\ pc = "save_open"
    /\ fs' = OpenW(fs, TmpPath(STATE_FILE))
    /\ pc' = "save_write"
    /\ UNCHANGED <<clock, utcoff, state, now, all_devices, metrics, hist>>

\* json.dump(data, f): the next piece of the document reaches the file
StepWrite ==
    /\ UNCHANGED writers
    /\ pc = "save_write"
    /\ Len(fs[TmpPath(STATE_FILE)].text) < Len(Dump(state))
    /\ fs' = WriteToken(fs, TmpPath(STATE_FILE),
                        Dump(state)[Len(fs[TmpPath(STATE_FILE)].text) + 1])
    /\ UNCHANGED <<clock, utcoff, state, pc, now, all_devices, metrics, hist>>

\* the file is closed; os.replace(tmp, path)
StepReplace ==
    /\ UNCHANGED writers
    /\ pc = "save_write"
    /\ Len(fs[TmpPath(STATE_FILE)].text) = Len(Dump(state))
    /\ fs' = Replace(fs, TmpPath(STATE_FILE), STATE_FILE)
    /\ hist' = HistSaved(hist, state)
    /\ pc' = "return"
    /\ UNCHANGED <<clock, utcoff, state, now, all_devices, metrics>>

\* return state, sent; main_loop sleeps
StepReturn(sleep) ==
    /\ UNCHANGED writers
    /\ pc = "return"
    /\ clock' = clock + sleep
    /\ utcoff' = UtcOffset(clock + sleep)
    /\ pc' = "sleep"
    /\ UNCHANGED <<state, fs, now, all_devices, metrics, hist>>

\* the process is killed at statement pc; later it is started again and main_loop
\* loads the state file
Crash(down) ==
    /\ UNCHANGED writers
    /\ pc # "start"
    /\ hist' = [hist EXCEPT !.lost = Some([pc |-> pc, state |-> state])]
    /\ state' = load(fs, STATE_FILE)
    /\ clock' = clock + down
    /\ utcoff' = UtcOffset(clock + down)
    /\ pc' = "start"
    /\ UNCHANGED <<fs, now, all_devices, metrics>>

NextCrash ==
    \/ StepResets
    \/ \E devs \in CrashSamples, g \in GatherSeconds : StepGather(devs, g)
    \/ StepIntegrate
    \/ StepSend
    \/ StepOpen
    \/ StepWrite
    \/ StepReplace
    \/ \E s \in SleepSeconds : StepReturn(s)
    \/ \E down \in DownSeconds : Crash(down)

SpecCrash == InitCrash /\ [][NextCrash]_vars

(***************************************************************************)
(* The same statements with a state file that cannot always be written.    *)
(***************************************************************************)
\* open(tmp, 'w'), json.dump or os.replace raises OSError: nothing between save
\* and asyncio.run catches it, the traceback is printed and the process exits
SaveFails ==
    /\ UNCHANGED writers
    /\ pc \in {"save_open", "save_write"}
    /\ pc' = "exited"
    /\ UNCHANGED <<clock, utcoff, state, fs, now, all_devices, metrics, hist>>

NextFail == NextCrash \/ SaveFails

SpecFail == InitCrash /\ [][NextFail]_vars

(***************************************************************************)
(* The same statements in a process started on the state file of an        *)
(* earlier run: the entities are in the state and their totals hold energy.*)
(***************************************************************************)
\* the state after one more cycle that started at t, took `gather` seconds to
\* sample `devs` and began in state st
Ran(st, t, gather, devs) ==
    Integrate(apply_resets(st, FromTimestamp(t, UtcOffset(t))), devs, t + gather)

\* the samples of the earlier run
EarlierSamples == [d \in EntityKeys |-> IF d = "kasa.a" THEN 100 ELSE 300]

\* the state an earlier run saved when its third cycle started at t
EarlierState(t) ==
    Ran(Ran(Ran(EnergyState, t - 2 * SMART_PLUG_POLL_INTERVAL, 0, EarlierSamples),
            t - SMART_PLUG_POLL_INTERVAL, 0, EarlierSamples),
        t, 0, EarlierSamples)

\* the local instants at which the process is started again, one poll interval
\* after the earlier run's last cycle: half a minute before a day boundary, before
\* a week boundary, and a noon
ResumeStartTimes ==
    { Local(2024, 12, 29, 23, 59, 30),
      Local(2024, 12, 30, 0, 59, 30),
      Local(2025, 1, 15, 12, 0, 0) }

InitResume ==
    /\ \E s \in ResumeStartTimes : clock = Timestamp(s) /\ utcoff = s.utcoffset
    /\ fs = save([n \in FileNames |-> NoFile],
                 EarlierState(clock - SMART_PLUG_POLL_INTERVAL), STATE_FILE)
    /\ state = load(fs, STATE_FILE)
    /\ pc = "start"
    /\ now = None
    /\ all_devices = [d \in {} |-> 0]
    /\ metrics = None
    /\ hist = [HistInit EXCEPT !.saved = state, !.saves = 1, !.ended = state]
    /\ writers = NoWriters

NextResume ==
    \/ StepResets
    \/ \E devs \in Samples, g \in GatherSeconds : StepGather(devs, g)
    \/ StepIntegrate
    \/ StepSend
    \/ StepOpen
    \/ StepWrite
    \/ StepReplace
    \/ \E s \in SleepSeconds : StepReturn(s)

SpecResume == InitResume /\ [][NextResume]_vars

(***************************************************************************)
(* EnergyState.load and EnergyState.save on their own: the state file      *)
(* holds any of a set of documents, the caller any of a set of states.     *)
(***************************************************************************)
\* an instant and an amount of energy for the states below
StoreInstant == Timestamp(Local(2025, 1, 15, 12, 0, 0))
StoreKwh == 2 * 100 * SMART_PLUG_POLL_INTERVAL

StoreDevices ==
    { [d \in {} |-> DeviceEnergyState],
      [d \in {"kasa.a"} |-> DeviceEnergyState],
      [d \in {"kasa.a", "tuya.b"} |->
         IF d = "kasa.a"
         THEN [DeviceEnergyState EXCEPT !.last_power_w = Some(100), !.day_kwh = StoreKwh]
         ELSE [DeviceEnergyState EXCEPT !.last_power_w = Some(300), !.year_kwh = StoreKwh]] }

\* the states a caller can hold
StoreStates ==
    { [EnergyState EXCEPT !.last_ts = ts, !.day_kwh = day, !.year_kwh = day + StoreKwh,
                          !.last_day_reset = marker, !.devices = devs] :
        ts \in {None, Some(StoreInstant)}, day \in {0, StoreKwh},
        marker \in {None, Some(StoreInstant - 12 * SecondsPerHour)},
        devs \in StoreDevices }

\* a document cut off after n tokens; a document without its i-th token; a
\* document with one more key; a document whose entities have one more field
Truncated(text, n) == SubSeq(text, 1, n)
WithoutToken(text, i) == SubSeq(text, 1, i - 1) \o SubSeq(text, i + 1, Len(text))
WithToken(text, tok) == SubSeq(text, 1, Len(text) - 1) \o <<tok, text[Len(text)]>>
WithDeviceField(st) ==
    [i \in 1..Len(Dump(st)) |->
       IF Dump(st)[i].key = "devices"
       THEN Token("devices", [k \in DOMAIN st.devices |->
                                [f \in DeviceFields \cup {"unknown"} |->
                                   IF f = "unknown" THEN None
                                   ELSE DeviceToJson(st.devices[k])[f]]])
       ELSE Dump(st)[i]]

\* a document in which one entity's entry has one more field
WithOneDeviceField(st, bad) ==
    [i \in 1..Len(Dump(st)) |->
       IF Dump(st)[i].key = "devices"
       THEN Token("devices", [k \in DOMAIN st.devices |->
                                IF k = bad
                                THEN [f \in DeviceFields \cup {"unknown"} |->
                                        IF f = "unknown" THEN None
                                        ELSE DeviceToJson(st.devices[k])[f]]
                                ELSE DeviceToJson(st.devices[k])])
       ELSE Dump(st)[i]]

\* the states whose documents the file can hold
StoreWritten ==
    { st \in StoreStates : st.last_ts # None /\ st.day_kwh # 0 /\ st.last_day_reset # None }

\* what the state path can hold before load: nothing, a whole document, a cut,
\* one with a key missing, one with an unknown key or field, something not JSON
StoreFiles ==
    {NoFile}
    \cup {[exists |-> TRUE, text |-> Dump(st)] : st \in StoreWritten}
    \cup {[exists |-> TRUE, text |-> Truncated(Dump(st), n)] :
            st \in StoreWritten, n \in {0, 1, 6, 11}}
    \cup {[exists |-> TRUE, text |-> WithoutToken(Dump(st), i)] :
            st \in StoreWritten, i \in {2, 3, 11}}
    \cup {[exists |-> TRUE, text |-> WithToken(Dump(st), Token("unknown", None))] :
            st \in StoreWritten}
    \cup {[exists |-> TRUE, text |-> WithDeviceField(st)] : st \in StoreWritten}
    \cup {[exists |-> TRUE, text |-> WithOneDeviceField(st, bad)] :
            st \in StoreWritten, bad \in EntityKeys}
    \cup {[exists |-> TRUE, text |-> <<Token("not json", None)>>]}

InitStore ==
    /\ clock = StoreInstant
    /\ utcoff = StandardOffset
    /\ \E f \in StoreFiles : fs = [n \in FileNames |-> IF n = STATE_FILE THEN f ELSE NoFile]
    /\ state \in StoreStates
    /\ pc = "start"
    /\ now = None
    /\ all_devices = [d \in {} |-> 0]
    /\ metrics = None
    /\ hist = HistInit
    /\ writers = NoWriters

\* state = EnergyState.load(STATE_FILE), at the start or after a save
StoreLoad ==
    /\ UNCHANGED writers
    /\ pc \in {"start", "saved"}
    /\ state' = load(fs, STATE_FILE)
    /\ pc' = "loaded"
    /\ UNCHANGED <<clock, utcoff, fs, now, all_devices, metrics, hist>>

\* state.save(STATE_FILE)
StoreSave ==
    /\ UNCHANGED writers
    /\ pc = "start"
    /\ fs' = save(fs, state, STATE_FILE)
    /\ hist' = HistSaved(hist, state)
    /\ pc' = "saved"
    /\ UNCHANGED <<clock, utcoff, state, now, all_devices, metrics>>

NextStore == StoreLoad \/ StoreSave

SpecStore == InitStore /\ [][NextStore]_vars

(***************************************************************************)
(* The boundary functions on their own: called again and again with one    *)
(* `now` while the clock goes on and the accumulators hold some state.     *)
(***************************************************************************)
MaxBoundaryCalls == 2

\* the instants `now` is taken at: a noon, the first hour of a year, a Monday
\* before 01:00, a summer afternoon
BoundaryInstants ==
    { StoreInstant,
      Timestamp(Local(2025, 1, 1, 0, 59, 30)),
      Timestamp(Local(2024, 12, 30, 0, 59, 30)),
      Timestamp(Local(2025, 7, 1, 15, 0, 0)) }

InitBoundary ==
    /\ clock \in BoundaryInstants
    /\ utcoff = UtcOffset(clock)
    /\ fs = [n \in FileNames |-> NoFile]
    /\ state \in StoreStates
    /\ pc = "start"
    /\ now = FromTimestamp(clock, UtcOffset(clock))
    /\ all_devices = [d \in {} |-> 0]
    /\ metrics = None
    /\ hist = [HistInit EXCEPT !.ended = state]
    /\ writers = NoWriters

\* current_<k>_boundary(now) is called and returns
CallBoundary(k) ==
    /\ Len(hist.returned[k]) < MaxBoundaryCalls
    /\ hist' = [hist EXCEPT !.returned[k] = Append(@, Timestamp(current_boundary(k, now)))]
    /\ UNCHANGED <<clock, utcoff, state, fs, pc, now, all_devices, metrics, writers>>

\* time passes between two calls
ClockTick ==
    /\ clock < Timestamp(now) + SecondsPerDay
    /\ clock' = clock + SecondsPerDay
    /\ utcoff' = UtcOffset(clock + SecondsPerDay)
    /\ UNCHANGED <<state, fs, pc, now, all_devices, metrics, hist, writers>>

NextBoundary ==
    \/ \E k \in Periods : CallBoundary(k)
    \/ ClockTick

SpecBoundary == InitBoundary /\ [][NextBoundary]_vars

(***************************************************************************)
(* Two processes run main_loop on the same STATE_FILE; each is followed    *)
(* through one EnergyState.save, system call by system call.  A writer is  *)
(* [pc, state, fd, pos]: fd is <<name>> of the file its open handle is on  *)
(* (a handle stays on its file when the file is renamed), pos its offset.  *)
(***************************************************************************)
Procs == {"p1", "p2"}

\* the states the two processes have computed
WriterStates ==
    { [st EXCEPT !.last_ts = Some(StoreInstant +
                                  Cardinality(DOMAIN st.devices) * SMART_PLUG_POLL_INTERVAL)] :
        st \in {w \in StoreWritten : DOMAIN w.devices # {}} }

\* what a write leaves where nothing was written (a gap after a truncation)
Hole == Token("", None)

\* f.write at offset pos - 1 of the handle: overwrites or extends the file
WriteAt(files, name, pos, tok) ==
    [files EXCEPT ![name].text =
       [i \in 1..Max(Len(@), pos) |->
          IF i = pos THEN tok ELSE IF i <= Len(@) THEN @[i] ELSE Hole]]

\* the handles after os.replace(src, dst): one on src is now on dst, one on the
\* old dst is on a file without a name
Retarget(w, src, dst) ==
    [w EXCEPT !.fd = IF @ = Some(src) THEN Some(dst)
                     ELSE IF @ = Some(dst) THEN None ELSE @]

InitTwo ==
    /\ clock = StoreInstant
    /\ utcoff = StandardOffset
    /\ fs = [n \in FileNames |-> NoFile]
    /\ state = load(fs, STATE_FILE)
    /\ pc = "start"
    /\ now = None
    /\ all_devices = [d \in {} |-> 0]
    /\ metrics = None
    /\ hist = HistInit
    /\ writers \in [Procs -> {[pc |-> "open", state |-> st, fd |-> None, pos |-> 0] :
                                st \in WriterStates}]

\* with open(tmp, 'w') as f
WriterOpen(p) ==
    /\ writers[p].pc = "open"
    /\ fs' = OpenW(fs, TmpPath(STATE_FILE))
    /\ writers' = [writers EXCEPT ![p] = [@ EXCEPT !.pc = "write",
                                                  !.fd = Some(TmpPath(STATE_FILE))]]
    /\ UNCHANGED <<clock, utcoff, state, pc, now, all_devices, metrics, hist>>

\* json.dump(data, f): the next piece of the document is written at the handle's offset
WriterWrite(p) ==
    /\ writers[p].pc = "write"
    /\ writers[p].pos < Len(Dump(writers[p].state))
    /\ fs' = IF writers[p].fd = None THEN fs
             ELSE WriteAt(fs, Val(writers[p].fd), writers[p].pos + 1,
                          Dump(writers[p].state)[writers[p].pos + 1])
    /\ writers' = [writers EXCEPT ![p].pos = @ + 1]
    /\ UNCHANGED <<clock, utcoff, state, pc, now, all_devices, metrics, hist>>

\* the file is closed; os.replace(tmp, path) finds tmp
WriterReplace(p) ==
    /\ writers[p].pc = "write"
    /\ writers[p].pos = Len(Dump(writers[p].state))
    /\ fs[TmpPath(STATE_FILE)].exists
    /\ fs' = Replace(fs, TmpPath(STATE_FILE), STATE_FILE)
    /\ writers' = [q \in Procs |->
                     IF q = p THEN [writers[q] EXCEPT !.pc = "done", !.fd = None]
                     ELSE Retarget(writers[q], TmpPath(STATE_FILE), STATE_FILE)]
    /\ UNCHANGED <<clock, utcoff, state, pc, now, all_devices, metrics, hist>>

\* the file is closed; os.replace(tmp, path) raises FileNotFoundError: the other
\* process has renamed tmp already
WriterReplaceFails(p) ==
    /\ writers[p].pc = "write"
    /\ writers[p].pos = Len(Dump(writers[p].state))
    /\ ~fs[TmpPath(STATE_FILE)].exists
    /\ writers' = [writers EXCEPT ![p] = [@ EXCEPT !.pc = "failed", !.fd = None]]
    /\ UNCHANGED <<clock, utcoff, state, fs, pc, now, all_devices, metrics, hist>>

NextTwo ==
    \E p \in Procs :
       \/ WriterOpen(p)
       \/ WriterWrite(p)
       \/ WriterReplace(p)
       \/ WriterReplaceFails(p)

SpecTwo == InitTwo /\ [][NextTwo]_vars

(***************************************************************************)
(* The reset rules, stated on epoch seconds: the latest instant <= t that  *)
(* is 00:00:00 (day), Monday 01:00:00 (week), the 1st 01:00:00 (month),    *)
(* January 1 01:00:00 (year) in the zone with offset off.                  *)
(***************************************************************************)
\* the civil date of the local day that holds the instant one hour before t
DateHourBefore(t, off) == CivilFromDays((t + off - SecondsPerHour) \div SecondsPerDay)

RuleBoundary(k, t, off) ==
    CASE k = "day"   -> t - ((t + off) % SecondsPerDay)
      [] k = "week"  -> (t - SecondsPerHour)
                          - ((t + off - SecondsPerHour) % SecondsPerDay)
                          - ((((t + off - SecondsPerHour) \div SecondsPerDay) + 3) % 7)
                              * SecondsPerDay
                          + SecondsPerHour
      [] k = "month" -> DaysFromCivil(DateHourBefore(t, off)[1], DateHourBefore(t, off)[2], 1)
                          * SecondsPerDay + SecondsPerHour - off
      [] k = "year"  -> DaysFromCivil(DateHourBefore(t, off)[1], 1, 1)
                          * SecondsPerDay + SecondsPerHour - off

\* the rule's boundary of period k at the instant of the last call / of the call before
BoundaryNow(k) == RuleBoundary(k, Timestamp(now), now.utcoffset)
BoundaryPrev(k) == RuleBoundary(k, Val(hist.prev_now), now.utcoffset)
BoundaryFirst(k) == RuleBoundary(k, Val(hist.first_now), now.utcoffset)

Called == hist.calls >= 1
CalledTwice == hist.calls >= 2 /\ hist.prev_now # None

(***************************************************************************)
(* C1.  A sequence of advance calls that crosses exactly one day boundary  *)
(* B resets the whole-home day total in exactly one of its calls, and      *)
(* last_day_reset is B from then on; a sequence that crosses none resets   *)
(* nothing.                                                                *)
(***************************************************************************)
C1_ResetOncePerDayBoundary ==
    Called =>
      /\ BoundaryNow("day") = BoundaryFirst("day") =>
           hist.resets["day"] = 0
      /\ BoundaryNow("day") = BoundaryFirst("day") + SecondsPerDay =>
           /\ hist.resets["day"] = 1
           /\ state.last_day_reset = Some(BoundaryNow("day"))

\* a third call, after the call that crossed the one day boundary and reset the total
C1_Witness ==
    /\ hist.calls = 3
    /\ BoundaryNow("day") = BoundaryFirst("day") + SecondsPerDay
    /\ BoundaryPrev("day") = BoundaryNow("day")
    /\ hist.resets["day"] = 1
    /\ state.day_kwh > 0

(***************************************************************************)
(* C2.  A call that follows a gap holding two or more day boundaries       *)
(* resets the day total (once: it is one reset of the history), moves      *)
(* last_day_reset to the latest day boundary <= now, and a later call in   *)
(* the same day does not reset it again.                                   *)
(***************************************************************************)
C2_NoMissedPeriodReplay ==
    CalledTwice =>
      /\ BoundaryNow("day") >= BoundaryPrev("day") + 2 * SecondsPerDay =>
           /\ "day" \in hist.zeroed
           /\ state.last_day_reset = Some(BoundaryNow("day"))
           /\ state.last_day_reset # Some(BoundaryPrev("day") + SecondsPerDay)
      /\ BoundaryNow("day") = BoundaryPrev("day") =>
           /\ "day" \notin hist.zeroed
           /\ state.last_day_reset = Some(BoundaryNow("day"))
      /\ hist.resets["day"] <= hist.calls - 1

\* the call after the call that followed a two-day gap, in the same day
C2_Witness ==
    /\ hist.calls = 3
    /\ BoundaryNow("day") = BoundaryPrev("day")
    /\ BoundaryPrev("day") >= BoundaryFirst("day") + 2 * SecondsPerDay
    /\ hist.resets["day"] = 1
    /\ "day" \notin hist.zeroed

(***************************************************************************)
(* C3.  From a fresh state a call resets period k if and only if a         *)
(* boundary of k lies in (previous call's now, this call's now].           *)
(***************************************************************************)
C3_ResetIffBoundaryCrossed ==
    Called =>
      \A k \in Periods :
        (k \in hist.zeroed) <=>
          (hist.prev_now # None /\ BoundaryNow(k) > Val(hist.prev_now))

(***************************************************************************)
(* C4.  Between two consecutive calls with no boundary of period k between *)
(* them (samples are non-negative), the whole-home total of k and every    *)
(* entity's total of k do not decrease.                                    *)
(***************************************************************************)
C4_MonotonicBetweenResets ==
    [][ (hist'.calls = hist.calls + 1 /\ hist.calls >= 1) =>
          \A k \in Periods :
            (RuleBoundary(k, Timestamp(now'), now'.utcoffset)
               = RuleBoundary(k, Timestamp(now), now.utcoffset)) =>
              /\ Kwh(state', k) >= Kwh(state, k)
              /\ \A d \in DOMAIN state.devices :
                   /\ d \in DOMAIN state'.devices
                   /\ Kwh(state'.devices[d], k) >= Kwh(state.devices[d], k) ]_vars

\* two integrating calls in one day: the totals have grown twice
C4_Witness ==
    /\ hist.calls = 3
    /\ \A k \in Periods : BoundaryNow(k) = BoundaryFirst(k)
    /\ state.day_kwh > 0
    /\ \E d \in DOMAIN state.devices : state.devices[d].day_kwh > 0

(***************************************************************************)
(* C5.  From an empty state, advance(t0, {a: p0}) then advance(t1, {a: p1})*)
(* with no boundary crossed leaves the whole-home day total at             *)
(* p1 * (t1 - t0) / 3600000 kWh and entity a's day total at                *)
(* ((p0 + p1) / 2) * (t1 - t0) / 3600000 kWh.                              *)
(***************************************************************************)
\* p * dt / 3600000 kWh and ((p0 + p1) / 2) * dt / 3600000 kWh, as numerators over KwhDen
RectangularKwh(p, dt) == 2 * p * dt
TrapezoidalKwh(p0, p1, dt) == (p0 + p1) * dt

C5_TwoCallScenario ==
    ( /\ hist.calls = 2
      /\ hist.prev_ts # None
      /\ hist.prev_devs # None
      /\ DOMAIN Val(hist.prev_devs) = {"kasa.a"}
      /\ DOMAIN all_devices = {"kasa.a"}
      /\ \A k \in Periods : BoundaryNow(k) = BoundaryPrev(k) )
    =>
      /\ state.day_kwh
           = RectangularKwh(all_devices["kasa.a"], Val(state.last_ts) - Val(hist.prev_ts))
      /\ "kasa.a" \in DOMAIN state.devices
      /\ state.devices["kasa.a"].day_kwh
           = TrapezoidalKwh(Val(hist.prev_devs)["kasa.a"], all_devices["kasa.a"],
                            Val(state.last_ts) - Val(hist.prev_ts))

(***************************************************************************)
(* C6.  After every advance call, the first one included, every entity of  *)
(* the samples has a DeviceEnergyState whose last_power_w is the power     *)
(* sampled in this call.                                                   *)
(***************************************************************************)
C6_LastPowerRecorded ==
    Called =>
      \A d \in DOMAIN all_devices :
        /\ d \in DOMAIN state.devices
        /\ state.devices[d].last_power_w = Some(all_devices[d])

(***************************************************************************)
(* C7.  A call made while last_ts is unset adds nothing to any whole-home  *)
(* or per-entity total and sets last_ts to the instant of the call.        *)
(***************************************************************************)
C7_FirstSampleNoOp ==
    [][ (hist'.calls = hist.calls + 1 /\ state.last_ts = None) =>
          /\ \A k \in Periods : Kwh(state', k) = Kwh(state, k)
          /\ \A d \in DOMAIN state'.devices, k \in Periods :
               Kwh(state'.devices[d], k)
                 = IF d \in DOMAIN state.devices THEN Kwh(state.devices[d], k) ELSE 0
          /\ state'.last_ts # None
          /\ Val(state'.last_ts) >= clock
          /\ Val(state'.last_ts) <= clock' ]_vars

\* the first call has been made with a device drawing power
C7_Witness ==
    /\ hist.calls = 1
    /\ hist.prev_ts = None
    /\ \E d \in DOMAIN all_devices : all_devices[d] > 0
    /\ state.last_ts # None
    /\ \A k \in Periods : Kwh(state, k) = 0

(***************************************************************************)
(* C8.  current_boundary(period, now) is the latest instant <= now that    *)
(* matches the period's reset rule; it is never later than now and, for    *)
(* week, later than now minus 7 days.                                      *)
(***************************************************************************)
C8_BoundaryIsLatestAtOrBeforeNow ==
    Called =>
      /\ \A k \in Periods :
           /\ Timestamp(current_boundary(k, now)) = BoundaryNow(k)
           /\ Timestamp(current_boundary(k, now)) <= Timestamp(now)
      /\ Timestamp(current_week_boundary(now)) > Timestamp(now) - 7 * SecondsPerDay

\* what a reader of the canonical state path sees is one complete document
CompleteDocument(f) == f.exists /\ LoadOk(f.text) /\ Len(f.text) = Len(Dump(StateFromJson(f.text)))

\* C9: at every statement of save, and after the process is killed at any of
\* them, the canonical state path holds the complete document of the last save
\* that finished (the previous one until os.replace, the new one from then on):
\* never a partial or empty document, and it is missing only while no save has
\* ever finished.
C9_ReaderSeesCompleteDocument ==
    IF hist.saves = 0
    THEN ~fs[STATE_FILE].exists
    ELSE /\ CompleteDocument(fs[STATE_FILE])
         /\ StateFromJson(fs[STATE_FILE].text) = hist.saved

\* the process was killed in the middle of json.dump of a new document while an
\* older document was at the canonical path
C9_Witness ==
    /\ pc = "start"
    /\ hist.lost # None
    /\ Val(hist.lost).pc = "save_write"
    /\ fs[STATE_FILE].exists
    /\ fs[TmpPath(STATE_FILE)].exists
    /\ Len(fs[TmpPath(STATE_FILE)].text) \in 1..(Len(Dump(state)) - 1)
    /\ Val(hist.lost).state # hist.saved

\* C10: when the process is killed at any statement of a cycle and started
\* again, load returns the state that was in memory when the interrupted cycle
\* started (as the cycle before left it), or, if the cycle had already done its
\* integration, the state it was killed with.
C10_AtMostOneCycleLost ==
    (pc = "start" /\ hist.lost # None) =>
        \/ state = hist.ended
        \/ Val(hist.lost).pc \in Integrated /\ state = Val(hist.lost).state

\* a cycle that follows a finished one is killed after its integration and
\* before os.replace: its integration is lost, the one before is kept
C10_Witness ==
    /\ pc = "start"
    /\ hist.lost # None
    /\ hist.calls >= 2
    /\ Val(hist.lost).pc \in {"send", "save_open", "save_write"}
    /\ Val(hist.lost).state # state
    /\ state = hist.ended
    /\ state.last_ts # None

\* the state path holds one whole document with every key of the schema and no other
WellFormed(f) ==
    /\ f.exists
    /\ LoadOk(f.text)
    /\ JsonKeys(f.text) = StateFields
    /\ \A k \in DOMAIN JsonGet(f.text, "devices") :
          DOMAIN JsonGet(f.text, "devices")[k] = DeviceFields

\* C11: load on a missing, cut, non-JSON or schema-mismatched state file returns
\* the state of a fresh start: last_ts unset, all totals zero, no markers, no
\* entities.
C11_LoadFallsBackToFreshState ==
    (pc = "loaded" /\ hist.saves = 0 /\ ~WellFormed(fs[STATE_FILE])) => state = EnergyState

\* C12: for every state with at least one entity, load after save returns a
\* state equal to the saved one in last_ts, the totals, the markers and the
\* entity map (an unset last_power_w included).
C12_SaveLoadRoundTrip ==
    (pc = "loaded" /\ hist.saves = 1 /\ DOMAIN hist.saved.devices # {}) =>
        state = hist.saved

\* a state with an entity whose last_power_w is unset went through save and load
C12_Witness ==
    /\ pc = "loaded"
    /\ hist.saves = 1
    /\ \E d \in DOMAIN hist.saved.devices : hist.saved.devices[d].last_power_w = None
    /\ hist.saved.last_ts # None
    /\ hist.saved.day_kwh # 0
    /\ state.devices = hist.saved.devices

\* the local calendar date of the instant t under the zone's rule
LocalDate(t) == CivilFromDays((t + UtcOffset(t)) \div SecondsPerDay)

\* C15: once the local UTC offset has changed since the first call, a call resets
\* the day total exactly when its local calendar date differs from that of the
\* call before: never a second time for the same local day, and never skipped.
C15_DayResetOncePerLocalDayAcrossDst ==
    (CalledTwice /\ UtcOffset(Val(hist.first_now)) # now.utcoffset) =>
        ("day" \in hist.zeroed <=> LocalDate(Val(hist.prev_now)) # LocalDate(Timestamp(now)))

\* the last call started with the clock behind the last_ts it found
StartedBehind ==
    /\ CalledTwice
    /\ hist.prev_ts # None
    /\ Timestamp(now) < Val(hist.prev_ts)

\* no total of r is below the one of `before`, for the periods not in `zeroed`
NotBelow(r, before, zeroed) == \A k \in Periods \ zeroed : Kwh(r, k) >= Kwh(before, k)
SameAs(r, before, zeroed) == \A k \in Periods \ zeroed : Kwh(r, k) = Kwh(before, k)

\* C13: when a call starts with the clock behind last_ts, no whole-home or
\* entity total decreases; when time.time() is behind last_ts too, dt is zero
\* and the totals stay as they were; and a period is reset only if the call's
\* now is later than the previous call's now (its boundary was crossed going
\* forward), never because of the earlier instant.
C13_ClockBackwardsClampsToZero ==
    StartedBehind =>
        /\ NotBelow(state, hist.ended, hist.zeroed)
        /\ \A d \in DOMAIN hist.ended.devices :
              /\ d \in DOMAIN state.devices
              /\ NotBelow(state.devices[d], hist.ended.devices[d], hist.zeroed)
        /\ Val(state.last_ts) < Val(hist.prev_ts) =>
              /\ SameAs(state, hist.ended, hist.zeroed)
              /\ \A d \in DOMAIN hist.ended.devices :
                    SameAs(state.devices[d], hist.ended.devices[d], hist.zeroed)
        /\ hist.zeroed # {} => Timestamp(now) > Val(hist.prev_now)

\* a call with power to integrate found last_ts an hour ahead of the clock, with
\* energy already in the totals
C13_Witness ==
    /\ StartedBehind
    /\ Val(state.last_ts) < Val(hist.prev_ts)
    /\ SumValues(all_devices) > 0
    /\ hist.ended.year_kwh > 0
    /\ DOMAIN hist.ended.devices # {}
    /\ hist.zeroed = {}

\* C14: a failure of save at the end of a cycle is not fatal: the process does
\* not terminate (it keeps the state of the cycle and goes on to the next one).
C14_SaveFailureNotFatal == pc # "exited"

\* both processes are through with their save
SavesOver == \A p \in Procs : writers[p].pc \in {"done", "failed"}

\* C17: whatever the interleaving of the two saves, the canonical file is left
\* a complete document written by one of the two processes: the state it holds
\* is the state of one of them.
C17_LastWriterWins ==
    (DOMAIN writers = Procs /\ SavesOver) =>
        /\ CompleteDocument(fs[STATE_FILE])
        /\ \E p \in Procs : StateFromJson(fs[STATE_FILE].text) = writers[p].state

\* C16: the values every cycle reports are the four whole-home totals and, for
\* exactly the entity keys of this cycle's samples, the entity's four totals as
\* updated by the cycle; also in the first cycle an entity is seen in.
C16_ReportContents ==
    Called =>
        /\ metrics # None
        /\ Val(metrics).aggregate = [k \in Periods |-> Kwh(state, k)]
        /\ DOMAIN Val(metrics).devices = DOMAIN all_devices
        /\ \A d \in DOMAIN all_devices :
              Val(metrics).devices[d] = [k \in Periods |-> Kwh(state.devices[d], k)]

\* C18: the set of entity keys of the state never shrinks: not in a cycle,
\* whatever the samples and the resets, and not when the saved state is loaded.
C18_EntitiesNeverShrink ==
    [][DOMAIN state.devices \subseteq DOMAIN state'.devices]_vars

\* a cycle with resets has run without a sample for an entity of the state
C18_Witness ==
    /\ Called
    /\ hist.zeroed # {}
    /\ \E d \in DOMAIN state.devices : d \notin DOMAIN all_devices
    /\ DOMAIN state.devices = DOMAIN hist.ended.devices

\* the totals of r are those of `before`, zero for the periods in `zeroed`
AsBefore(r, before, zeroed) ==
    \A k \in Periods : Kwh(r, k) = IF k \in zeroed THEN 0 ELSE Kwh(before, k)

\* C19: a cycle with an empty samples mapping reports total power 0, changes no
\* whole-home or entity total through integration (a due reset apart), creates
\* and modifies no entity, and sets last_ts to the time of the call.
C19_EmptySamplesValidCycle ==
    (Called /\ DOMAIN all_devices = {}) =>
        /\ Val(metrics).power_watts = 0
        /\ AsBefore(state, hist.ended, hist.zeroed)
        /\ DOMAIN state.devices = DOMAIN hist.ended.devices
        /\ \A d \in DOMAIN state.devices :
              /\ AsBefore(state.devices[d], hist.ended.devices[d], hist.zeroed)
              /\ state.devices[d].last_power_w = hist.ended.devices[d].last_power_w
        /\ state.last_ts # None
        /\ Val(state.last_ts) - Timestamp(now) \in GatherSeconds

\* an empty mapping came after cycles that had integrated energy for an entity
C19_Witness ==
    /\ Called
    /\ DOMAIN all_devices = {}
    /\ hist.prev_ts # None
    /\ hist.ended.year_kwh > 0
    /\ DOMAIN hist.ended.devices # {}
    /\ Val(state.last_ts) > Val(hist.prev_ts)

C21_ResetCouplesEntities ==
    pc = "gather" =>
        \A k \in Periods :
           IF k \in hist.zeroed
           THEN /\ Kwh(state, k) = 0
                /\ \A d \in DOMAIN state.devices : Kwh(state.devices[d], k) = 0
           ELSE /\ Kwh(state, k) = Kwh(hist.ended, k)
                /\ \A d \in DOMAIN state.devices :
                      Kwh(state.devices[d], k) = Kwh(hist.ended.devices[d], k)

\* a call has just zeroed the week total of the home and of two entities that
\* held energy, and has left their year totals alone
C21_Witness ==
    /\ pc = "gather"
    /\ "week" \in hist.zeroed
    /\ "year" \notin hist.zeroed
    /\ hist.ended.week_kwh > 0
    /\ Cardinality(DOMAIN state.devices) >= 2
    /\ \A d \in DOMAIN state.devices :
          hist.ended.devices[d].week_kwh > 0 /\ state.devices[d].year_kwh > 0

\* the entities of the state the last call started with that have no sample in it
Absent == DOMAIN hist.ended.devices \ DOMAIN all_devices

\* C22: when the integration of a call is done, an entity of the state without
\* a sample in this call has its last_power_w and, for every period not reset in
\* this call, its total as they were when the call started.
C22_AbsentEntityUntouched ==
    pc = "send" =>
        \A d \in Absent :
           /\ d \in DOMAIN state.devices
           /\ state.devices[d].last_power_w = hist.ended.devices[d].last_power_w
           /\ \A k \in Periods \ hist.zeroed :
                 Kwh(state.devices[d], k) = Kwh(hist.ended.devices[d], k)

\* a call that integrated energy for a sampled entity and reset the day had no
\* sample for another entity that holds energy and a last power
C22_Witness ==
    /\ pc = "send"
    /\ \E d \in Absent :
          /\ hist.ended.devices[d].last_power_w # None
          /\ hist.ended.devices[d].year_kwh > 0
    /\ SumValues(all_devices) > 0
    /\ Val(state.last_ts) > Val(hist.prev_ts)
    /\ hist.zeroed = {"day"}

\* the entities sampled in this call that were in the state with a last power
\* but had no sample in the call before
Reappeared ==
    { d \in DOMAIN all_devices \cap DOMAIN hist.ended.devices :
        /\ hist.ended.devices[d].last_power_w # None
        /\ hist.prev_devs # None
        /\ d \notin DOMAIN Val(hist.prev_devs) }

\* C29: an entity that reappears after a cycle without a sample gets, in each of
\* its period totals, the increment ((retained last_power_w + current power) / 2)
\* * (time.time() - last_ts of the cycle just before) / 3600000, on top of what
\* the total was when the call started (zero if the call reset the period): the
\* cycles it was absent in count only through that one interval.
C29_ReappearingEntityIncrement ==
    (pc = "send" /\ hist.prev_ts # None) =>
        \A d \in Reappeared : \A k \in Periods :
           Kwh(state.devices[d], k) =
              (IF k \in hist.zeroed THEN 0 ELSE Kwh(hist.ended.devices[d], k))
              + TrapezoidalKwh(Val(hist.ended.devices[d].last_power_w), all_devices[d],
                               Val(state.last_ts) - Val(hist.prev_ts))

\* an entity with a retained 100 W reappears at 300 W after one cycle without it
C29_Witness ==
    /\ pc = "send"
    /\ hist.prev_ts # None
    /\ \E d \in Reappeared :
          /\ Val(hist.ended.devices[d].last_power_w) # all_devices[d]
          /\ hist.ended.devices[d].year_kwh > 0
          /\ state.devices[d].year_kwh > hist.ended.devices[d].year_kwh

\* C23: a marker that is unset when a call starts is set by the call to the
\* boundary the period's boundary function returns for now, and the call does not
\* take the reset of that period (its totals are not below what they were); a
\* marker that is set when a call starts is set after it.
C23_FirstRunSeedsMarkers ==
    Called =>
        \A k \in Periods :
           IF LastReset(hist.ended, k) = None
           THEN /\ LastReset(state, k) = Some(Timestamp(current_boundary(k, now)))
                /\ k \notin hist.zeroed
                /\ Kwh(state, k) >= Kwh(hist.ended, k)
                /\ \A d \in DOMAIN hist.ended.devices :
                      Kwh(state.devices[d], k) >= Kwh(hist.ended.devices[d], k)
           ELSE LastReset(state, k) # None

\* the first call of a fresh process has seeded the four markers, and a later
\* call found them set
C23_Witness ==
    /\ hist.calls >= 2
    /\ hist.first_now # None
    /\ \A k \in Periods : LastReset(hist.ended, k) # None /\ LastReset(state, k) # None
    /\ "day" \in hist.zeroed

\* C28: a call that resets period k while last_ts is set leaves the whole-home
\* total of k equal to total_power * max(0, time.time() - last_ts) / 3600000: the
\* whole interval since the last sample, an offline gap included, with no cap.
C28_IncrementAcrossBoundary ==
    (Called /\ hist.prev_ts # None) =>
        \A k \in hist.zeroed :
           Kwh(state, k) =
              RectangularKwh(SumValues(all_devices),
                             Max(0, Val(state.last_ts) - Val(hist.prev_ts)))

\* after two days offline a call with power to integrate reset the day
C28_Witness ==
    /\ Called
    /\ hist.prev_ts # None
    /\ "day" \in hist.zeroed
    /\ SumValues(all_devices) > 0
    /\ Val(state.last_ts) - Val(hist.prev_ts) >= 2 * SecondsPerDay
    /\ state.day_kwh > 0
    /\ state.year_kwh > state.day_kwh

\* C27: after every completed cycle each marker equals the boundary the period's
\* boundary function returns for the committed last_ts: the reset check and the
\* timestamp commit are about one instant.
C27_ResetAndCommitSameInstant ==
    (Called /\ pc = "sleep") =>
        \A k \in Periods :
           LastReset(state, k) =
              Some(Timestamp(current_boundary(k, FromTimestamp(Val(state.last_ts),
                                                             now.utcoffset))))

\* the entity entries of a document that DeviceEnergyState(**dev_data) rejects
Unparsable(text) ==
    { k \in DOMAIN JsonGet(text, "devices") :
        ~(DOMAIN JsonGet(text, "devices")[k] \subseteq DeviceFields) }

\* a document with every top-level key that has exactly one such entry
OneBadEntity(f) ==
    /\ f.exists
    /\ JsonOk(f.text)
    /\ JsonKeys(f.text) = StateFields
    /\ Cardinality(Unparsable(f.text)) = 1

\* C25: load on a document in which a single entity entry cannot be parsed
\* returns the complete fresh state: no whole-home total, marker, last_ts or
\* other entity of the document is kept.
C25_OneBadEntityDiscardsAll ==
    (pc = "loaded" /\ hist.saves = 0 /\ OneBadEntity(fs[STATE_FILE])) => state = EnergyState

C25_Witness ==
    /\ pc = "loaded"
    /\ hist.saves = 0
    /\ OneBadEntity(fs[STATE_FILE])
    /\ Cardinality(DOMAIN JsonGet(fs[STATE_FILE].text, "devices")) = 2
    /\ Val(JsonGet(fs[STATE_FILE].text, "day_kwh")) # 0
    /\ JsonGet(fs[STATE_FILE].text, "last_ts") # None
    /\ state = EnergyState

\* C24: when the totals of a cycle are handed to the metrics sink, the state
\* file already holds the state with these totals: no emitted total differs
\* from the persisted one.
C24_PersistedBeforeEmitted ==
    (pc = "save_open" /\ metrics # None) =>
        \A k \in Periods : Val(metrics).aggregate[k] = Kwh(load(fs, STATE_FILE), k)

\* C26: no step lowers a marker that is set, and none unsets it: not a call
\* whose now is earlier than the previous call's, nor one whose UTC offset
\* differs from the previous call's.
C26_MarkersNeverDecrease ==
    [][\A k \in Periods :
          LastReset(state, k) # None =>
             /\ LastReset(state', k) # None
             /\ Val(LastReset(state', k)) >= Val(LastReset(state, k))]_vars

\* a call earlier than the previous one and in another UTC offset, for which
\* the boundary of some period lies before the period's marker
C26_Witness ==
    /\ CalledTwice
    /\ Timestamp(now) < Val(hist.prev_now)
    /\ now.utcoffset # UtcOffset(Val(hist.prev_now))
    /\ \E k \in Periods :
          /\ LastReset(hist.ended, k) # None
          /\ Timestamp(current_boundary(k, now)) < Val(LastReset(hist.ended, k))
          /\ Timestamp(current_boundary(k, now)) <= Timestamp(now)
          /\ LastReset(state, k) = LastReset(hist.ended, k)

\* C30: from a fresh state, with samples that are not negative and a clock
\* that does not go back, the month total is at most the year total, for the
\* whole home and for every entity.
C30_MonthAtMostYear ==
    /\ state.month_kwh <= state.year_kwh
    /\ \A d \in DOMAIN state.devices : state.devices[d].month_kwh <= state.devices[d].year_kwh

====
